---- MODULE Spec2Model ----
(***************************************************************************)
(* Model of src/types/message.js (class NewMessage of exonum-client): the  *)
(* message envelope, its constructor and its methods, with the wire bytes  *)
(* computed byte by byte.                                                  *)
(*                                                                         *)
(* JavaScript values are tagged records: [t |-> "undefined"],              *)
(* [t |-> "number", v |-> n], [t |-> "string", v |-> s]. An object is a    *)
(* function from property names to values; reading a property the object   *)
(* does not own yields undefined, as in JavaScript.                        *)
(***************************************************************************)
EXTENDS Naturals, Integers, Sequences, FiniteSets, TLC

VARIABLES
    env,        \* the NewMessage object ("this"), or NoObject before/without construction
    typeArg,    \* the type descriptor newMessage was called with
    lastOp,     \* name of the last operation called
    lastArgs,   \* [data, cutSignature] of the last call that took them
    result,     \* outcome of the last operation: returned value or thrown error
    headerUsed, \* header method invoked by the last serialize call
    prevCut     \* data and outcome of the latest earlier serialize(data, true) call

vars == <<env, typeArg, lastOp, lastArgs, result, headerUsed, prevCut>>

----------------------------------------------------------------------------
(* JavaScript values *)

Undef == [t |-> "undefined"]
Num(n) == [t |-> "number", v |-> n]
Str(s) == [t |-> "string", v |-> s]
Bool(b) == [t |-> "boolean", v |-> b]
NaN == [t |-> "NaN"]

IsUndefined(x) == x.t = "undefined"
IsStr(x, s) == x.t = "string" /\ x.v = s
IsTrue(x) == x.t = "boolean" /\ x.v = TRUE

\* property read: obj.name
Get(obj, name) == IF name \in DOMAIN obj THEN obj[name] ELSE Undef

----------------------------------------------------------------------------
(* Outcomes of a call *)

NoBytes == <<>>
Returned(bytes) == [kind |-> "bytes", error |-> "", bytes |-> bytes, num |-> 0]
ReturnedNumber(n) == [kind |-> "number", error |-> "", bytes |-> NoBytes, num |-> n]
ReturnedObject == [kind |-> "object", error |-> "", bytes |-> NoBytes, num |-> 0]
ReturnedBoolean(b) == [kind |-> "boolean", error |-> "", bytes |-> NoBytes, num |-> IF b THEN 1 ELSE 0]
ReturnedPromise == [kind |-> "promise", error |-> "", bytes |-> NoBytes, num |-> 0]
Throw(e) == [kind |-> "throw", error |-> e, bytes |-> NoBytes, num |-> 0]
NoResult == [kind |-> "none", error |-> "", bytes |-> NoBytes, num |-> 0]

Threw(r) == r.kind = "throw"

----------------------------------------------------------------------------
(* Bounds and input pools *)

MaxFields == 2

SIGNATURE_LENGTH == 64

\* hexadecimal strings are sequences of hex digits 0..15
HexKey == [i \in 1..64 |-> (i * 7) % 16]
HexSignature == [i \in 1..128 |-> (i * 5 + 3) % 16]

Uint16 == "Uint16"
Uint32 == "Uint32"
Uint64 == "Uint64"
Hash == "Hash"
Digest == "Digest"
String == "String"

NoType == "<undefined>"

\* field descriptors a caller may put in type.fields
FieldPool ==
    { [name |-> Str("amount"), type |-> Uint64],
      [name |-> Str("id"), type |-> Uint16],
      [name |-> Str("memo"), type |-> String],
      [name |-> Undef, type |-> Uint16],
      [name |-> Str("bad"), type |-> NoType] }

FieldLists == UNION { [1..n -> FieldPool] : n \in 0..MaxFields }

MessageKinds == { Str("transaction"), Str("precommit"), Str("status"), Undef }

\* type descriptors a caller may pass to newMessage
TypeDescriptors ==
    [ protocol_version : { Num(258) },
      message_id : { Num(0) },
      service_id : { Num(515) },
      signature : { Str(HexSignature), Undef },
      fields : FieldLists,
      public_key : { Str(HexKey), Undef },
      consensus_tag : { Num(67305985), Undef },
      message_type : MessageKinds ]

\* data objects a caller may pass to serialize, hash, sign, verifySignature, send
DataPool ==
    { [amount |-> Num(100), id |-> Num(7), memo |-> Str(<<104, 105>>)],
      [amount |-> Num(4660), id |-> Num(513), memo |-> Str(<<>>)],
      [amount |-> Num(100)],
      [amount |-> Num(100), id |-> Num(65536), memo |-> Str(<<104>>)] }

CutFlags == { Bool(TRUE), Bool(FALSE), Undef }

NoObject == [none |-> Undef]
NoDescriptor == [none |-> Undef]
NoArgs == [data |-> [none |-> Undef], cutSignature |-> Undef]
NoPrev == [called |-> FALSE, data |-> [none |-> Undef], result |-> NoResult]

----------------------------------------------------------------------------
(* Primitive codec: fixed-width little-endian scalars and hexadecimal      *)
(* hash/digest values written at an offset of a growable byte array.       *)

\* width of a type handle, undefined for a variable-size type
TypeSize(type) ==
    CASE type = Uint16 -> Num(2)
      [] type = Uint32 -> Num(4)
      [] type = Uint64 -> Num(8)
      [] type = Hash -> Num(32)
      [] type = Digest -> Num(64)
      [] OTHER -> Undef

fieldIsFixed(field) == ~IsUndefined(TypeSize(field.type))

\* numbers of the model stay below 2^31, so only the 16-bit width has an upper limit
\* a number of the model can exceed
InRange(v, w) == v >= 0 /\ (w >= 4 \/ v < 65536)

LittleEndian(n, w) ==
    LET RECURSIVE le(_, _)
        le(m, k) == IF k = 0 THEN <<>> ELSE <<m % 256>> \o le(m \div 256, k - 1)
    IN le(n, w)

HexToBytes(s) == [i \in 1..(Len(s) \div 2) |-> 16 * s[2 * i - 1] + s[2 * i]]

\* buffer[from + i] = bytes[i], the array growing when written past its end
WriteAt(buffer, from, bytes) ==
    LET last == IF from + Len(bytes) > Len(buffer) THEN from + Len(bytes) ELSE Len(buffer)
    IN [i \in 1..last |->
           IF i > from /\ i <= from + Len(bytes) THEN bytes[i - from]
           ELSE IF i <= Len(buffer) THEN buffer[i] ELSE 0]

IntegerSerialize(value, buffer, from, w) ==
    IF value.t # "number" THEN Throw("TypeError")
    ELSE IF ~InRange(value.v, w) THEN Throw("RangeError")
    ELSE Returned(WriteAt(buffer, from, LittleEndian(value.v, w)))

HexadecimalSerialize(value, buffer, from, w) ==
    IF value.t # "string" \/ Len(value.v) # 2 * w THEN Throw("TypeError")
    ELSE Returned(WriteAt(buffer, from, HexToBytes(value.v)))

\* type.serialize(value, buffer, from) of a fixed-size type
TypeSerialize(type, value, buffer, from) ==
    CASE type = Uint16 -> IntegerSerialize(value, buffer, from, 2)
      [] type = Uint32 -> IntegerSerialize(value, buffer, from, 4)
      [] type = Uint64 -> IntegerSerialize(value, buffer, from, 8)
      [] type = Hash -> HexadecimalSerialize(value, buffer, from, 32)
      [] type = Digest -> HexadecimalSerialize(value, buffer, from, 64)
      [] OTHER -> Throw("TypeError")

----------------------------------------------------------------------------
(* Generic record type: fixed segment in declaration order, each variable  *)
(* field an 8-byte offset/length segment, its bytes appended after.        *)

\* size() reserving 4 bytes instead of 8 for a variable field
size_VariableAsFour(this) ==
    LET fields == Get(this, "fields")
        RECURSIVE reduce(_, _)
        reduce(accumulator, i) ==
            IF i > Len(fields) THEN accumulator
            ELSE IF fieldIsFixed(fields[i])
                 THEN reduce(accumulator + TypeSize(fields[i].type).v, i + 1)
                 ELSE reduce(accumulator + 4, i + 1)
    IN reduce(0, 1)

\* size(): this.fields.reduce((accumulator, field) => ..., 0)
size(this) ==
    LET fields == Get(this, "fields")
        RECURSIVE reduce(_, _)
        reduce(accumulator, i) ==
            IF i > Len(fields) THEN accumulator
            ELSE IF fieldIsFixed(fields[i])
                 THEN reduce(accumulator + TypeSize(fields[i].type).v, i + 1)
                 ELSE reduce(accumulator + 8, i + 1)
    IN reduce(0, 1)

RECURSIVE SerializeFields(_, _, _, _, _, _, _)
SerializeFields(fields, data, i, cursor, fixed, tail, fixedSize) ==
    IF i > Len(fields) THEN Returned(fixed \o tail)
    ELSE
      LET field == fields[i]
          value == Get(data, field.name.v)
      IN IF IsUndefined(value) THEN Throw("TypeError")
         ELSE IF fieldIsFixed(field)
         THEN LET r == TypeSerialize(field.type, value, fixed, cursor)
              IN IF Threw(r) THEN r
                 ELSE SerializeFields(fields, data, i + 1,
                                      cursor + TypeSize(field.type).v, r.bytes, tail,
                                      fixedSize)
         ELSE IF value.t # "string" THEN Throw("TypeError")
         ELSE LET segment == LittleEndian(fixedSize + Len(tail), 4)
                             \o LittleEndian(Len(value.v), 4)
              IN SerializeFields(fields, data, i + 1, cursor + 8,
                                 WriteAt(fixed, cursor, segment), tail \o value.v,
                                 fixedSize)

\* serialization.serialize(buffer, shift, data, type, isTransactionBody), buffer = [], shift = 0
serialization_serialize(data, type) ==
    SerializeFields(Get(type, "fields"), data, 1, 0, <<>>, <<>>, size(type))

\* newType({fields}).serialize(data)
newType_serialize(fields, data) == serialization_serialize(data, [fields |-> fields])

----------------------------------------------------------------------------
(* External collaborators: hash, signature scheme and transport, abstracted *)
(* to total functions of the bytes they are given.                          *)

RECURSIVE ByteSum(_)
ByteSum(bytes) == IF bytes = <<>> THEN 0 ELSE (Head(bytes) + ByteSum(Tail(bytes))) % 256

SecretKeys == { 11, 29 }

crypto_hash(bytes) == [i \in 1..32 |-> (ByteSum(bytes) + i) % 256]
crypto_sign(secretKey, bytes) == [i \in 1..64 |-> (ByteSum(bytes) + secretKey * i) % 256]

----------------------------------------------------------------------------
(* class NewMessage *)

\* the constructor validating only the first field of type.fields
constructor_FirstFieldOnly(type) ==
    IF Len(type.fields) > 0
       /\ (IsUndefined(type.fields[1].name) \/ type.fields[1].type = NoType)
    THEN [outcome |-> Throw("TypeError"), this |-> NoObject]
    ELSE [outcome |-> ReturnedObject,
          this |-> [protocol_version |-> type.protocol_version,
                    message_id |-> type.message_id,
                    service_id |-> type.service_id,
                    signature |-> type.signature,
                    fields |-> type.fields,
                    public_key |-> type.public_key,
                    consensus_tag |-> type.consensus_tag,
                    message_type |-> type.message_type]]

\* constructor (type): the forEach over type.fields, then the property assignments
constructor(type) ==
    LET RECURSIVE forEach(_)
        forEach(i) ==
            IF i > Len(type.fields) THEN FALSE
            ELSE IF IsUndefined(type.fields[i].name) THEN TRUE
            ELSE IF type.fields[i].type = NoType THEN TRUE
            ELSE forEach(i + 1)
    IN
    IF forEach(1)
    THEN [outcome |-> Throw("TypeError"), this |-> NoObject]
    ELSE [outcome |-> ReturnedObject,
          this |-> [protocol_version |-> type.protocol_version,
                    message_id |-> type.message_id,
                    service_id |-> type.service_id,
                    signature |-> type.signature,
                    fields |-> type.fields,
                    public_key |-> type.public_key,
                    consensus_tag |-> type.consensus_tag,
                    message_type |-> type.message_type]]

\* export function newMessage (type)
newMessage(type) == constructor(type)

TransactionMessageHead ==
    << [name |-> Str("protocol_version"), type |-> Uint16],
       [name |-> Str("pk_size"), type |-> Uint64],
       [name |-> Str("pk_data"), type |-> Hash],
       [name |-> Str("tx_tag"), type |-> Uint32],
       [name |-> Str("service_id"), type |-> Uint16],
       [name |-> Str("full_tx_len"), type |-> Uint64] >>

PrecommitMessageHead ==
    << [name |-> Str("protocol_version"), type |-> Uint16],
       [name |-> Str("pk_size"), type |-> Uint64],
       [name |-> Str("pk_data"), type |-> Hash],
       [name |-> Str("consensus_tag"), type |-> Uint32],
       [name |-> Str("precommit_tag"), type |-> Uint32],
       [name |-> Str("precommit_len"), type |-> Uint64] >>

\* x.length / 2: a TypeError when x is undefined, NaN when x has no length
HalfLength(x) ==
    IF x.t = "string" /\ Len(x.v) % 2 = 0 THEN Num(Len(x.v) \div 2) ELSE NaN

transactionHeaderSerialization(this) ==
    IF IsUndefined(Get(this, "publicKey")) THEN Throw("TypeError")
    ELSE newType_serialize(TransactionMessageHead,
            [protocol_version |-> Get(this, "protocol_version"),
             pk_size |-> HalfLength(Get(this, "publicKey")),
             pk_data |-> Get(this, "publicKey"),
             tx_tag |-> Num(0),
             service_id |-> Get(this, "service_id"),
             full_tx_len |-> Num(0)])

precommitHeaderSerialization(this) ==
    IF IsUndefined(Get(this, "public_key")) THEN Throw("TypeError")
    ELSE newType_serialize(PrecommitMessageHead,
            [protocol_version |-> Get(this, "protocol_version"),
             pk_size |-> HalfLength(Get(this, "public_key")),
             pk_data |-> Get(this, "public_key"),
             consensus_tag |-> Get(this, "consensus_tag"),
             precommit_tag |-> Get(this, "service_id"),
             precommit_len |-> Num(0)])

\* the selection with the default on the other branch
headerMethod_DefaultPrecommit(this) ==
    IF IsStr(Get(this, "messageType"), "transaction") THEN "transaction" ELSE "precommit"

\* the header method selected by the condition of serialize
headerMethod(this) ==
    IF IsStr(Get(this, "messageType"), "precommit") THEN "precommit" ELSE "transaction"

serialize(this, data, cutSignature) ==
    LET buffer == IF headerMethod(this) = "precommit"
                  THEN precommitHeaderSerialization(this)
                  ELSE transactionHeaderSerialization(this)
    IN IF Threw(buffer) THEN buffer
       ELSE
         LET body == serialization_serialize(data, this)
         IN IF Threw(body) THEN body
            ELSE
              LET patched == IntegerSerialize(Num(Len(body.bytes)), buffer.bytes, 48, 8).bytes
                  pushed == patched \o body.bytes
                  marked == IntegerSerialize(Num(SIGNATURE_LENGTH), pushed, Len(pushed), 8).bytes
              IN IF ~IsTrue(cutSignature)
                 THEN TypeSerialize(Digest, Get(this, "signature"), marked, Len(marked))
                 ELSE Returned(marked)

\* hash (data): crypto.hash(data, this)
hash(this, data) ==
    LET preimage == serialize(this, data, Bool(TRUE))
    IN IF Threw(preimage) THEN preimage ELSE Returned(crypto_hash(preimage.bytes))

\* sign (secretKey, data): crypto.sign(secretKey, data, this)
sign(this, secretKey, data) ==
    LET preimage == serialize(this, data, Bool(TRUE))
    IN IF Threw(preimage) THEN preimage ELSE Returned(crypto_sign(secretKey, preimage.bytes))

\* verifySignature (signature, publicKey, data): crypto.verifySignature(..., this)
verifySignature(this, signature, secretKeyOfPublicKey, data) ==
    LET preimage == serialize(this, data, Bool(TRUE))
    IN IF Threw(preimage) THEN preimage
       ELSE ReturnedBoolean(signature = crypto_sign(secretKeyOfPublicKey, preimage.bytes))

\* send (transactionEndpoint, explorerBasePath, data, signature): transport send
send(this, data, signature) ==
    LET message == serialize(this, data, Undef)
    IN IF Threw(message) THEN message ELSE ReturnedPromise

----------------------------------------------------------------------------
(* The state machine: one envelope, constructed once, then any sequence of *)
(* method calls on it.                                                     *)

Constructed == "fields" \in DOMAIN env

Init ==
    /\ env = NoObject
    /\ typeArg = NoDescriptor
    /\ lastOp = "none"
    /\ lastArgs = NoArgs
    /\ result = NoResult
    /\ headerUsed = "none"
    /\ prevCut = NoPrev

Construct ==
    /\ lastOp = "none"
    /\ \E type \in TypeDescriptors :
         LET made == newMessage(type)
         IN /\ env' = made.this
            /\ typeArg' = type
            /\ result' = made.outcome
    /\ lastOp' = "newMessage"
    /\ UNCHANGED <<lastArgs, headerUsed, prevCut>>

\* what a method call leaves behind besides its own outcome
Called(op, data, cutSignature) ==
    /\ lastOp' = op
    /\ lastArgs' = [data |-> data, cutSignature |-> cutSignature]
    /\ prevCut' = IF lastOp = "serialize" /\ IsTrue(lastArgs.cutSignature)
                  THEN [called |-> TRUE, data |-> lastArgs.data, result |-> result]
                  ELSE prevCut
    /\ UNCHANGED <<env, typeArg>>

CallSerialize ==
    /\ Constructed
    /\ \E data \in DataPool, cutSignature \in CutFlags :
         /\ result' = serialize(env, data, cutSignature)
         /\ Called("serialize", data, cutSignature)
    /\ headerUsed' = headerMethod(env)

CallTransactionHeaderSerialization ==
    /\ Constructed
    /\ result' = transactionHeaderSerialization(env)
    /\ Called("transactionHeaderSerialization", NoArgs.data, Undef)
    /\ UNCHANGED headerUsed

CallPrecommitHeaderSerialization ==
    /\ Constructed
    /\ result' = precommitHeaderSerialization(env)
    /\ Called("precommitHeaderSerialization", NoArgs.data, Undef)
    /\ UNCHANGED headerUsed

CallSize ==
    /\ Constructed
    /\ result' = ReturnedNumber(size(env))
    /\ Called("size", NoArgs.data, Undef)
    /\ UNCHANGED headerUsed

CallHash ==
    /\ Constructed
    /\ \E data \in DataPool :
         /\ result' = hash(env, data)
         /\ Called("hash", data, Undef)
    /\ UNCHANGED headerUsed

CallSign ==
    /\ Constructed
    /\ \E data \in DataPool, secretKey \in SecretKeys :
         /\ result' = sign(env, secretKey, data)
         /\ Called("sign", data, Undef)
    /\ UNCHANGED headerUsed

CallVerifySignature ==
    /\ Constructed
    /\ \E data \in DataPool, key \in SecretKeys :
         /\ result' = verifySignature(env, HexToBytes(HexSignature), key, data)
         /\ Called("verifySignature", data, Undef)
    /\ UNCHANGED headerUsed

CallSend ==
    /\ Constructed
    /\ \E data \in DataPool :
         /\ result' = send(env, data, Get(env, "signature"))
         /\ Called("send", data, Undef)
    /\ UNCHANGED headerUsed

Next ==
    \/ Construct
    \/ CallSerialize
    \/ CallTransactionHeaderSerialization
    \/ CallPrecommitHeaderSerialization
    \/ CallSize
    \/ CallHash
    \/ CallSign
    \/ CallVerifySignature
    \/ CallSend

Spec == Init /\ [][Next]_vars

----------------------------------------------------------------------------
(* Reading the wire bytes back, and the inputs the claims speak about      *)

\* the unsigned integer a little-endian byte sequence encodes
RECURSIVE DecodeLittleEndian(_)
DecodeLittleEndian(bytes) ==
    IF bytes = <<>> THEN 0 ELSE Head(bytes) + 256 * DecodeLittleEndian(Tail(bytes))

\* bytes [from, to) of a buffer, offsets counted from 0
Slice(bytes, from, to) == SubSeq(bytes, from + 1, to)

BytesToHex(bytes) ==
    [i \in 1..(2 * Len(bytes)) |->
        IF i % 2 = 1 THEN bytes[(i + 1) \div 2] \div 16 ELSE bytes[i \div 2] % 16]

\* offset of the k-th field of a header layout: the widths of the fields before it
RECURSIVE OffsetOf(_, _)
OffsetOf(head, k) ==
    IF k = 1 THEN 0 ELSE OffsetOf(head, k - 1) + TypeSize(head[k - 1].type).v

KindOf(type) == type.message_type
KnownKind(type) == IsStr(KindOf(type), "transaction") \/ IsStr(KindOf(type), "precommit")

\* a descriptor carrying everything its header layout needs
WellFormedDescriptor(type) ==
    /\ KnownKind(type)
    /\ type.protocol_version.t = "number"
    /\ type.service_id.t = "number"
    /\ type.public_key.t = "string" /\ Len(type.public_key.v) = 64
    /\ IsStr(KindOf(type), "precommit") => type.consensus_tag.t = "number"

\* data the schema can encode
Encodable(type, data) == ~Threw(serialization_serialize(data, [fields |-> type.fields]))
BodyOf(type, data) == serialization_serialize(data, [fields |-> type.fields]).bytes

\* a serialize call whose inputs are all valid: the spec has it return the wire bytes
ValidSerializeCall ==
    /\ lastOp = "serialize"
    /\ WellFormedDescriptor(typeArg)
    /\ Encodable(typeArg, lastArgs.data)
    /\ IsTrue(lastArgs.cutSignature)
       \/ (typeArg.signature.t = "string" /\ Len(typeArg.signature.v) = 128)

SignatureBytes == IF IsTrue(lastArgs.cutSignature) THEN 0 ELSE 64

----------------------------------------------------------------------------
(* Claims *)

C2_HeaderFollowsKind ==
    (Constructed /\ headerUsed # "none") =>
        /\ IsStr(KindOf(typeArg), "precommit") => headerUsed = "precommit"
        /\ IsStr(KindOf(typeArg), "transaction") => headerUsed = "transaction"

\* C3: the precommit header has the byte layout of the transaction header:
\* 56 bytes, consensus_tag at [42:46], precommit_tag (= service_id) at [46:48]
\* and the length field at [48:56].
C3_PrecommitHeaderLayout ==
    (lastOp = "precommitHeaderSerialization" /\ result.kind = "bytes") =>
        /\ Len(result.bytes) = 56
        /\ \A k \in 1..6 :
             OffsetOf(PrecommitMessageHead, k) = OffsetOf(TransactionMessageHead, k)
        /\ DecodeLittleEndian(Slice(result.bytes, 42, 46)) = typeArg.consensus_tag.v
        /\ DecodeLittleEndian(Slice(result.bytes, 46, 48)) = typeArg.service_id.v
        /\ DecodeLittleEndian(Slice(result.bytes, 48, 56)) = 0

\* C4: for an envelope built from a descriptor with protocol_version,
\* service_id and a 32-byte public_key, transactionHeaderSerialization
\* succeeds and its bytes decode back to that protocol_version, public key
\* (pk_size and pk_data) and service_id.
C4_TransactionHeaderRoundTrip ==
    (/\ lastOp = "transactionHeaderSerialization"
     /\ typeArg.protocol_version.t = "number"
     /\ typeArg.service_id.t = "number"
     /\ typeArg.public_key.t = "string" /\ Len(typeArg.public_key.v) = 64) =>
        /\ result.kind = "bytes"
        /\ Len(result.bytes) = 56
        /\ DecodeLittleEndian(Slice(result.bytes, 0, 2)) = typeArg.protocol_version.v
        /\ DecodeLittleEndian(Slice(result.bytes, 2, 10)) = 32
        /\ BytesToHex(Slice(result.bytes, 10, 42)) = typeArg.public_key.v
        /\ DecodeLittleEndian(Slice(result.bytes, 46, 48)) = typeArg.service_id.v

\* C5: the bytes serialize returns are header (56 bytes) ++ body ++ an
\* 8-byte marker encoding 64 ++ (unless cutSignature is true) the 64-byte
\* signature: 56 + |body| + 8 + 64 bytes signed, 56 + |body| + 8 cut.
C5_OutputLayout ==
    ValidSerializeCall =>
        LET body == BodyOf(typeArg, lastArgs.data)
            n == Len(body)
        IN /\ result.kind = "bytes"
           /\ Len(result.bytes) = 56 + n + 8 + SignatureBytes
           /\ Slice(result.bytes, 56, 56 + n) = body
           /\ DecodeLittleEndian(Slice(result.bytes, 56 + n, 56 + n + 8)) = 64
           /\ ~IsTrue(lastArgs.cutSignature) =>
                BytesToHex(Slice(result.bytes, 56 + n + 8, 56 + n + 8 + 64))
                  = typeArg.signature.v

\* C6: serialize(data, false) equals serialize(data, true) followed by the
\* signature sign(secretKey, serialize(data, true)) computed over that preimage.
C6_SignedIsPreimagePlusSignature ==
    (/\ ValidSerializeCall
     /\ ~IsTrue(lastArgs.cutSignature)
     /\ prevCut.called
     /\ prevCut.data = lastArgs.data) =>
        /\ result.kind = "bytes"
        /\ prevCut.result.kind = "bytes"
        /\ \E secretKey \in SecretKeys :
             result.bytes = prevCut.result.bytes
                              \o crypto_sign(secretKey, prevCut.result.bytes)

\* C7: two calls of serialize(data, true) with identical data on one envelope,
\* whatever was called before or in between, return byte-identical output, and
\* no call changes the envelope's fields.
C7_CutSerializeIdempotent ==
    /\ (/\ ValidSerializeCall
        /\ IsTrue(lastArgs.cutSignature)
        /\ prevCut.called
        /\ prevCut.data = lastArgs.data) =>
           /\ result.kind = "bytes"
           /\ prevCut.result.kind = "bytes"
           /\ result.bytes = prevCut.result.bytes
    /\ Constructed => env = constructor(typeArg).this

\* a field of a descriptor that lacks its name or its type
LacksNameOrType(field) == IsUndefined(field.name) \/ field.type = NoType

\* C8: constructing from a descriptor in which any field, at any position,
\* lacks a name or a type fails with an error and yields no envelope; a
\* descriptor whose fields all have both constructs, its fields kept in
\* declaration order.
C8_ConstructionValidatesFields ==
    lastOp # "none" =>
        IF \E i \in 1..Len(typeArg.fields) : LacksNameOrType(typeArg.fields[i])
        THEN /\ ~Constructed
             /\ lastOp = "newMessage"
             /\ Threw(result)
        ELSE /\ Constructed
             /\ env.fields = typeArg.fields
             /\ lastOp = "newMessage" => result.kind = "object"

\* a construction that failed on a field that is not the first of the list
C8_Witness ==
    /\ lastOp = "newMessage"
    /\ Threw(result)
    /\ ~Constructed
    /\ Len(typeArg.fields) = 2
    /\ ~LacksNameOrType(typeArg.fields[1])
    /\ LacksNameOrType(typeArg.fields[2])

\* C9 as stated: an envelope whose kind is neither transaction nor precommit
\* is rejected with an UnknownMessageKindError and is never serialized with
\* either header layout.
C9_UnknownKindRejected ==
    (lastOp = "serialize" /\ ~KnownKind(typeArg)) =>
        /\ Threw(result)
        /\ result.error = "UnknownMessageKindError"
        /\ headerUsed = "none"

\* C9 amended: an envelope whose kind is neither transaction nor precommit is
\* not rejected for its kind: the constructor accepts it, and serialize treats
\* it as a transaction, selecting the transaction header method; no
\* UnknownMessageKindError is raised.
C9_UnknownKindIsTransaction ==
    (/\ lastOp # "none"
     /\ ~KnownKind(typeArg)
     /\ \A i \in 1..Len(typeArg.fields) : ~LacksNameOrType(typeArg.fields[i])) =>
        /\ Constructed
        /\ result.error # "UnknownMessageKindError"
        /\ lastOp = "newMessage" => result.kind = "object"
        /\ lastOp = "serialize" => headerUsed = "transaction"

\* serialize called on an envelope of an unknown kind
C9_Witness ==
    /\ lastOp = "serialize"
    /\ IsStr(KindOf(typeArg), "status")
    /\ headerUsed = "transaction"

\* bytes of the variable-data region: the encoded lengths of the variable fields
RECURSIVE VariableBytes(_, _)
VariableBytes(fields, data) ==
    IF fields = <<>> THEN 0
    ELSE (IF fieldIsFixed(Head(fields)) THEN 0 ELSE Len(Get(data, Head(fields).name.v).v))
         + VariableBytes(Tail(fields), data)

CountOf(fields, type) == Cardinality({ i \in 1..Len(fields) : fields[i].type = type })

\* C10: size() is the sum over the fields of the fixed width of a fixed field
\* and exactly 8 for a variable field whatever its encoded length; 0 for an
\* empty schema; and the offset in the body where the variable data begins.
C10_SizeIsFixedPrefixLength ==
    lastOp = "size" =>
        /\ result.kind = "number"
        /\ result.num = 2 * CountOf(env.fields, Uint16) + 4 * CountOf(env.fields, Uint32)
                        + 8 * CountOf(env.fields, Uint64) + 32 * CountOf(env.fields, Hash)
                        + 64 * CountOf(env.fields, Digest) + 8 * CountOf(env.fields, String)
        /\ env.fields = <<>> => result.num = 0
        /\ \A data \in DataPool :
             Encodable(typeArg, data) =>
               result.num = Len(BodyOf(typeArg, data)) - VariableBytes(env.fields, data)

\* size() of a schema mixing a fixed and a variable field, with data whose
\* variable field is not empty
C10_Witness ==
    /\ lastOp = "size"
    /\ Len(env.fields) = 2
    /\ env.fields[1].type = Uint16
    /\ env.fields[2].type = String
    /\ result.num = 10
    /\ \E data \in DataPool :
         Encodable(typeArg, data) /\ VariableBytes(env.fields, data) > 0

====
